---- MODULE Spec2Model ----
(***************************************************************************)
(* hermit-server (services/rust-grpc): the supervisor in main.rs, the      *)
(* plaintext and TLS echo listeners and the shared echo handler in tcp.rs, *)
(* the process clock in bench.rs and the TLS material resolver in tls.rs.  *)
(*                                                                         *)
(* One action is one run of a task between two suspension points (.await)  *)
(* of the source.  The peers of the connections and the operating system   *)
(* (bind and accept failures, time passing) are the environment.           *)
(***************************************************************************)
EXTENDS Integers, Sequences, FiniteSets, TLC

\* ------------------------------------------------------------------ bounds
\* Connections the two echo listeners accept in one run, together.
MaxConns == 2
\* What all the peers do in one run, together (chunks of bytes sent, streams
\* closed, connections broken): in a run of the echo service, and in a run of
\* the whole process from its start.
MaxPeerEvents == 3
MaxPeerEventsFromStart == 2
\* The same in the runs checked for liveness.
MaxPeerEventsFair == 1
\* The same in the runs of the echo service checked for liveness.
MaxPeerEventsStall == 2
\* Times the monotonic clock is seen to advance in one run.
MaxTicks == 1
\* The longest of the short batches Stats::from_sorted is called with.
MaxLen == 3

\* How many tasks call now_ns side by side, and how often each.
MaxCallers == 2
MaxCalls == 2

\* ------------------------------------------------------------------- state
VARIABLES
    main_pc,      \* main.rs main: "resolve_tls", "spawn", "select", "done"
    exit_status,  \* what main returned: "running", "Ok", "Err"
    selected,     \* the select! branch that ran: "none" or a transport
    tls_cfg,      \* main's tls_cfg: "unresolved", "Ok", "Err"
    task,         \* transport -> "unspawned", "started", "listening", "Err"
    task_err,     \* transport -> the error its task returned: "none", "bind", "serve"
    nconn,        \* connections accepted so far; they are 1..nconn
    kind,         \* connection -> "none", "tcp", "tls": the listener that accepted it
    pc,           \* connection -> where its spawned task is
    hs,           \* connection -> acceptor.accept: "none", "pending", "Ok", "Err"
    peer,         \* connection -> "open", "stalled", "closed", "reset"
    inq,          \* connection -> the application bytes the peer has sent
    rpos,         \* connection -> how many of them the handler has read
    len,          \* handle_tcp_echo: len
    recv_ns,      \* handle_tcp_echo: recv_ns
    send_ns,      \* handle_tcp_echo: send_ns
    payload,      \* handle_tcp_echo: payload
    out,          \* connection -> the application bytes written to the stream
    flushed,      \* connection -> how many of them a flush() has covered
    instant,      \* the monotonic clock (Instant::now), in ns
    ticks,        \* how often it advanced
    EPOCH,        \* bench.rs EPOCH: <<>> until set, then <<instant>>
    quota,        \* how many more things the peers may do in this run
    sorted,       \* Stats::from_sorted: the slice it is called with
    stats,        \* Stats::from_sorted: <<what it returned>>, <<>> before
    request,      \* Benchmark: <<the BenchmarkRequest>>, <<>> when none was made
    response,     \* Benchmark: <<what the call returned>>, <<>> before
    once_running, \* bench.rs EPOCH: a caller is inside its initializer
    call_pc,      \* caller of now_ns -> "idle", "init", "store", "elapsed"
    call_now,     \* caller -> the Instant::now() its initializer took
    call_epoch,   \* caller -> now_ns: epoch, <<>> before get_or_init returned
    returned,     \* caller -> the values now_ns has returned to it, in order
    slice_len,    \* Stats::from_sorted: n, the length of a non-empty slice
    slice_idx     \* Stats::from_sorted: <<the two indices it computed>>, <<>> before

supervisor == <<main_pc, exit_status, selected, tls_cfg, task, task_err>>
clock      == <<instant, ticks, EPOCH>>
handler    == <<pc, hs, rpos, len, recv_ns, send_ns, payload, out, flushed>>
network    == <<nconn, kind, peer, inq, quota>>
callers    == <<once_running, call_pc, call_now, call_epoch, returned>>
indexing   == <<slice_len, slice_idx>>
bench      == <<sorted, stats, request, response, callers, indexing>>
vars       == <<supervisor, clock, handler, network, bench>>

Transports == {"grpc", "tcp", "tls"}
Conns      == 1..MaxConns
Callers    == 1..MaxCallers

\* ------------------------------------------------------------ byte encoding
\* The variant to_be_bytes: most significant byte first.
RECURSIVE to_le_bytes_be(_, _)
to_le_bytes_be(v, n) ==
    IF n = 0 THEN <<>> ELSE Append(to_le_bytes_be(v \div 256, n - 1), v % 256)

\* iN::to_le_bytes: the n low bytes of v, least significant first (floor
\* division and non-negative remainder give two's complement for v < 0).
RECURSIVE to_le_bytes(_, _)
to_le_bytes(v, n) ==
    IF n = 0 THEN <<>> ELSE <<v % 256>> \o to_le_bytes(v \div 256, n - 1)

\* u32::from_le_bytes: the first byte is the least significant.
RECURSIVE from_le_bytes(_)
from_le_bytes(b) ==
    IF b = <<>> THEN 0 ELSE Head(b) + 256 * from_le_bytes(Tail(b))

\* --------------------------------------------------------------- the clock
\* How far the clock may be seen to advance between two steps, in ns.
TickSteps == {257}

\* EPOCH.get_or_init(Instant::now): the value of EPOCH after the call.
get_or_init == IF EPOCH = <<>> THEN <<instant>> ELSE EPOCH

\* The variant with the subtraction turned round.
now_ns_reversed == get_or_init[1] - instant

\* bench::now_ns: epoch.elapsed().as_nanos() as i64.
now_ns == instant - get_or_init[1]

Tick ==
    /\ exit_status = "running"
    /\ ticks < MaxTicks
    /\ \E d \in TickSteps : instant' = instant + d
    /\ ticks' = ticks + 1
    /\ UNCHANGED <<EPOCH, supervisor, handler, network, bench>>

\* ------------------------------------------------------- TLS material (tls.rs)
\* What main is started with and what the files hold: whether --tls-cert and
\* --tls-key are given, whether each file can be read, whether the
\* certificate PEM gives a usable chain, and how many PKCS#8 keys the key PEM
\* holds.
TlsInputs ==
    [cert_path : BOOLEAN, key_path : BOOLEAN, cert_readable : BOOLEAN,
     key_readable : BOOLEAN, cert_ok : BOOLEAN, nkeys : 0..2]

\* build_rustls_config: Err on an empty key list or a certificate rustls
\* refuses, else the server config.
build_rustls_config(cert_ok, nkeys) ==
    IF nkeys = 0 THEN "Err"
    ELSE IF ~cert_ok THEN "Err"
    ELSE "Ok"

\* resolve_tls_config: both paths given reads both files (`?` on each read),
\* anything else generates a self-signed pair, which holds one key.
resolve_tls_config(i) ==
    IF i.cert_path /\ i.key_path
    THEN IF ~i.cert_readable \/ ~i.key_readable
         THEN "Err"
         ELSE build_rustls_config(i.cert_ok, i.nkeys)
    ELSE build_rustls_config(TRUE, 1)

\* ------------------------------------------------------ supervisor (main.rs)
Running == exit_status = "running"

\* The variant that logs the error and goes on to start the transports.
try_resolve_logged(r) == "spawn"

\* main.rs:73: the `?` on what resolve_tls_config returned: where main goes
\* on, "done" being the return of the error.
try_resolve(r) == IF r = "Ok" THEN "spawn" ELSE "done"

\* main.rs:73: let tls_cfg = tls::resolve_tls_config(..)?;
main_resolve_tls ==
    /\ Running
    /\ main_pc = "resolve_tls"
    /\ \E i \in TlsInputs :
         /\ tls_cfg' = resolve_tls_config(i)
         /\ main_pc' = try_resolve(tls_cfg')
         /\ exit_status' = IF main_pc' = "done" THEN "Err" ELSE exit_status
    /\ UNCHANGED <<selected, task, task_err, clock, handler, network, bench>>

\* The variant that waits for the RPC server alone.
SelectBranches_grpc_only == {"grpc"}

\* The transports main waits for in its select!.
SelectBranches == {"grpc", "tcp", "tls"}

\* main.rs:84-86: the three tokio::spawn calls; no suspension point between.
main_spawn ==
    /\ Running
    /\ main_pc = "spawn"
    /\ task' = [t \in Transports |-> "started"]
    /\ main_pc' = "select"
    /\ UNCHANGED <<exit_status, selected, tls_cfg, task_err, clock, handler, network, bench>>

\* main.rs:89-101: select! takes the first join handle that is ready, logs
\* it, and main returns Ok(()).
main_select ==
    /\ Running
    /\ main_pc = "select"
    /\ \E t \in SelectBranches :
         /\ task[t] = "Err"
         /\ selected' = t
    /\ main_pc' = "done"
    /\ exit_status' = "Ok"
    /\ UNCHANGED <<tls_cfg, task, task_err, clock, handler, network, bench>>

\* ------------------------------------------------- the transports' own tasks
\* tcp.rs:16, tcp.rs:34, grpc.rs:148-152: the bind; `?` returns its error.
bind(t) ==
    /\ Running
    /\ task[t] = "started"
    /\ \E r \in {"listening", "Err"} :
         /\ task' = [task EXCEPT ![t] = r]
         /\ task_err' = [task_err EXCEPT ![t] = IF r = "Err" THEN "bind" ELSE @]
    /\ UNCHANGED <<main_pc, exit_status, selected, tls_cfg, clock, handler, network, bench>>

\* tcp.rs:20, tcp.rs:39: listener.accept().await? fails; grpc.rs:152: the
\* tonic server ends with an error.
serve_error(t) ==
    /\ Running
    /\ task[t] = "listening"
    /\ task' = [task EXCEPT ![t] = "Err"]
    /\ task_err' = [task_err EXCEPT ![t] = "serve"]
    /\ UNCHANGED <<main_pc, exit_status, selected, tls_cfg, clock, handler, network, bench>>

\* ---------------------------------------------------------------- the peers
\* The payload bytes the peer of connection c uses: no two connections share
\* a byte, so a byte in the wrong connection's response shows.
PayloadBytes(c) == <<10 * c + 1, 10 * c + 2>>

\* The payloads a peer sends whole; <<>> is the disconnect frame.
PeerPayloads(c) ==
    {<<>>, <<PayloadBytes(c)[1]>>, <<PayloadBytes(c)[1], PayloadBytes(c)[2]>>}

\* A request frame on the wire: the length as u32 LE, then the payload.
PeerFrame(p) == <<Len(p), 0, 0, 0>> \o p

\* What a peer sends and then sends nothing more: a length prefix cut after
\* 1, 2 or 3 bytes, a payload cut short, and a prefix announcing 256 bytes
\* with nothing behind it.
PeerPartials(c) ==
    {<<1>>, <<1, 0>>, <<1, 0, 0>>,
     <<2, 0, 0, 0, PayloadBytes(c)[1]>>,
     <<0, 1, 0, 0>>}

Terminated(c) == pc[c] \in {"Ok", "Err", "hs_failed"}

\* The connection carries application bytes: accepted, past the TLS
\* handshake if any, its task not ended.
Established(c) == pc[c] \notin {"idle", "handshake"} /\ ~Terminated(c)

peer_send_frame(c) ==
    /\ Running
    /\ Established(c)
    /\ peer[c] = "open"
    /\ quota > 0
    /\ \E p \in PeerPayloads(c) : inq' = [inq EXCEPT ![c] = @ \o PeerFrame(p)]
    /\ quota' = quota - 1
    /\ UNCHANGED <<nconn, kind, peer, supervisor, clock, handler, bench>>

peer_send_partial(c) ==
    /\ Running
    /\ Established(c)
    /\ peer[c] = "open"
    /\ quota > 0
    /\ \E b \in PeerPartials(c) : inq' = [inq EXCEPT ![c] = @ \o b]
    /\ peer' = [peer EXCEPT ![c] = "stalled"]
    /\ quota' = quota - 1
    /\ UNCHANGED <<nconn, kind, supervisor, clock, handler, bench>>

\* The peer shuts its sending side down (FIN): what it sent is still read.
peer_close(c) ==
    /\ Running
    /\ Established(c)
    /\ peer[c] \in {"open", "stalled"}
    /\ quota > 0
    /\ peer' = [peer EXCEPT ![c] = "closed"]
    /\ quota' = quota - 1
    /\ UNCHANGED <<nconn, kind, inq, supervisor, clock, handler, bench>>

\* The connection breaks (RST, a TLS alert): reads and writes fail from now on.
peer_reset(c) ==
    /\ Running
    /\ pc[c] # "idle" /\ ~Terminated(c)
    /\ peer[c] # "reset"
    /\ quota > 0
    /\ peer' = [peer EXCEPT ![c] = "reset"]
    /\ quota' = quota - 1
    /\ UNCHANGED <<nconn, kind, inq, supervisor, clock, handler, bench>>

\* ------------------------------------------------------- listeners (tcp.rs)
\* The variant that awaits the connection in the accept loop and returns
\* its error with `?`.
tokio_spawn_inline(c) ==
    task' = IF pc'[c] \in {"Err", "hs_failed"}
            THEN [task EXCEPT ![kind[c]] = "Err"]
            ELSE task

\* tcp.rs:21-25, tcp.rs:41-52: the connection runs in a task of its own; what
\* it returns is logged with warn! there and reaches nobody, so the ending
\* of a connection's task leaves the transports' tasks as they are.
tokio_spawn(c) == task' = task

\* tcp.rs:20-21: serve_plaintext accepts and spawns handle_tcp_echo(stream).
serve_plaintext_accept ==
    /\ Running
    /\ task["tcp"] = "listening"
    /\ nconn < MaxConns
    /\ nconn' = nconn + 1
    /\ kind' = [kind EXCEPT ![nconn + 1] = "tcp"]
    /\ pc' = [pc EXCEPT ![nconn + 1] = "read_len"]
    /\ UNCHANGED <<hs, rpos, len, recv_ns, send_ns, payload, out, flushed>>
    /\ UNCHANGED <<peer, inq, quota, supervisor, clock, bench>>

\* tcp.rs:39-42: serve_tls accepts and spawns a task that first awaits
\* acceptor.accept(stream).
serve_tls_accept ==
    /\ Running
    /\ task["tls"] = "listening"
    /\ nconn < MaxConns
    /\ nconn' = nconn + 1
    /\ kind' = [kind EXCEPT ![nconn + 1] = "tls"]
    /\ pc' = [pc EXCEPT ![nconn + 1] = "handshake"]
    /\ hs' = [hs EXCEPT ![nconn + 1] = "pending"]
    /\ UNCHANGED <<rpos, len, recv_ns, send_ns, payload, out, flushed>>
    /\ UNCHANGED <<peer, inq, quota, supervisor, clock, bench>>

\* The variant that runs the handler whatever the handshake gave.
after_handshake_always(r) == "read_len"

\* tcp.rs:42-51: the match on the handshake's result: Ok runs
\* handle_tcp_echo(tls_stream), Err logs and ends the task.
after_handshake(r) == IF r = "Ok" THEN "read_len" ELSE "hs_failed"

\* tcp.rs:42: acceptor.accept(stream).await. The handshake fails on a broken
\* connection, and may fail on any (a client that speaks no TLS or refuses
\* the certificate).
acceptor_accept(c) ==
    /\ Running
    /\ pc[c] = "handshake"
    /\ \E r \in (IF peer[c] = "reset" THEN {"Err"} ELSE {"Ok", "Err"}) :
         /\ hs' = [hs EXCEPT ![c] = r]
         /\ pc' = [pc EXCEPT ![c] = after_handshake(r)]
    /\ tokio_spawn(c)
    /\ UNCHANGED <<main_pc, exit_status, selected, tls_cfg, task_err, bench>>
    /\ UNCHANGED <<rpos, len, recv_ns, send_ns, payload, out, flushed>>
    /\ UNCHANGED <<network, clock>>

\* ------------------------------------------------- handle_tcp_echo (tcp.rs)
\* (The variant read_exact_timed gives up, with an error, once the clock has
\* advanced.)
\* AsyncReadExt::read_exact(buf) of n bytes, as it ends: "Ok" with the buffer
\* filled, "UnexpectedEof" when the stream ends before that (after no byte
\* or after some), "IoError" on a broken connection; "Pending" while it waits.
read_exact_timed(c, n) ==
    IF peer[c] = "reset" THEN "IoError"
    ELSE IF Len(inq[c]) - rpos[c] >= n THEN "Ok"
    ELSE IF peer[c] = "closed" THEN "UnexpectedEof"
    ELSE IF ticks > 0 THEN "IoError"
    ELSE "Pending"

read_exact(c, n) ==
    IF peer[c] = "reset" THEN "IoError"
    ELSE IF Len(inq[c]) - rpos[c] >= n THEN "Ok"
    ELSE IF peer[c] = "closed" THEN "UnexpectedEof"
    ELSE "Pending"

\* The n bytes a read_exact that ends Ok has put in the buffer.
stream_bytes(c, n) == SubSeq(inq[c], rpos[c] + 1, rpos[c] + n)

\* How far the stream has been read when read_exact ends with result r.
read_to(c, n, r) ==
    IF r = "Ok" THEN rpos[c] + n
    ELSE IF r = "UnexpectedEof" THEN Len(inq[c])
    ELSE rpos[c]

\* The variant with a plain `?` on the length read.
on_len_error_strict(e) == "Err"

\* tcp.rs:68-72: the match on the length read's error.
on_len_error(e) == IF e = "UnexpectedEof" THEN "Ok" ELSE "Err"

\* The variant that treats an end of stream in the payload as a disconnect.
on_payload_error_lenient(e) == IF e = "UnexpectedEof" THEN "Ok" ELSE "Err"

\* tcp.rs:81: stream.read_exact(&mut payload).await?
on_payload_error(e) == "Err"

\* The variant without the test.
is_disconnect_never(n) == FALSE

\* tcp.rs:75: if len == 0 { return Ok(()) }
is_disconnect(n) == n = 0

\* The handler's locals with those of connection c dropped (out of scope).
Drop(f, c, zero) == [f EXCEPT ![c] = zero]

\* The loop body of connection c is left for `next`: a return (Ok or Err,
\* the task ends) or the next pass ("read_len"); the locals go out of scope.
Leave(c, next) ==
    /\ pc' = [pc EXCEPT ![c] = next]
    /\ len' = Drop(len, c, 0)
    /\ recv_ns' = Drop(recv_ns, c, 0)
    /\ send_ns' = Drop(send_ns, c, 0)
    /\ payload' = Drop(payload, c, <<>>)

\* tcp.rs:68-77: read the length, take recv_ns, decode, leave on 0.
handle_tcp_echo_read_len(c) ==
    /\ Running
    /\ pc[c] = "read_len"
    /\ LET r == read_exact(c, 4) IN
         /\ r # "Pending"
         /\ rpos' = [rpos EXCEPT ![c] = read_to(c, 4, r)]
         /\ IF r = "Ok"
            THEN /\ EPOCH' = get_or_init
                 /\ IF is_disconnect(from_le_bytes(stream_bytes(c, 4)))
                    THEN Leave(c, "Ok")
                    ELSE /\ pc' = [pc EXCEPT ![c] = "read_payload"]
                         /\ recv_ns' = [recv_ns EXCEPT ![c] = now_ns]
                         /\ len' = [len EXCEPT ![c] = from_le_bytes(stream_bytes(c, 4))]
                         /\ UNCHANGED <<send_ns, payload>>
            ELSE /\ Leave(c, on_len_error(r))
                 /\ UNCHANGED EPOCH
    /\ tokio_spawn(c)
    /\ UNCHANGED <<main_pc, exit_status, selected, tls_cfg, task_err, bench>>
    /\ UNCHANGED <<hs, out, flushed, network, instant, ticks>>

\* tcp.rs:80-84: read len payload bytes, take send_ns.
handle_tcp_echo_read_payload(c) ==
    /\ Running
    /\ pc[c] = "read_payload"
    /\ LET r == read_exact(c, len[c]) IN
         /\ r # "Pending"
         /\ rpos' = [rpos EXCEPT ![c] = read_to(c, len[c], r)]
         /\ IF r = "Ok"
            THEN /\ payload' = [payload EXCEPT ![c] = stream_bytes(c, len[c])]
                 /\ EPOCH' = get_or_init
                 /\ send_ns' = [send_ns EXCEPT ![c] = now_ns]
                 /\ pc' = [pc EXCEPT ![c] = "write_recv"]
                 /\ UNCHANGED <<len, recv_ns>>
            ELSE /\ Leave(c, on_payload_error(r))
                 /\ UNCHANGED EPOCH
    /\ tokio_spawn(c)
    /\ UNCHANGED <<main_pc, exit_status, selected, tls_cfg, task_err, bench>>
    /\ UNCHANGED <<hs, out, flushed, network, instant, ticks>>

\* AsyncWriteExt::write_all(bytes).await?: all of bytes, or an error on a
\* broken connection (what a failing write_all may still have handed to the
\* broken connection reaches nobody and is not kept); then the handler goes
\* on at next.
write_all(c, bytes, next) ==
    /\ Running
    /\ IF peer[c] = "reset"
       THEN Leave(c, "Err") /\ UNCHANGED out
       ELSE /\ out' = [out EXCEPT ![c] = @ \o bytes]
            /\ pc' = [pc EXCEPT ![c] = next]
            /\ UNCHANGED <<len, recv_ns, send_ns, payload>>
    /\ tokio_spawn(c)
    /\ UNCHANGED <<main_pc, exit_status, selected, tls_cfg, task_err, bench>>
    /\ UNCHANGED <<hs, rpos, flushed, network, clock>>

\* The variant with one buffer for all connections.
echo_bytes_shared(c) == payload[1]

\* tcp.rs:87: the bytes echoed.
echo_bytes(c) == payload[c]

\* tcp.rs:85
handle_tcp_echo_write_recv(c) ==
    /\ pc[c] = "write_recv"
    /\ write_all(c, to_le_bytes(recv_ns[c], 8), "write_send")

\* tcp.rs:86
handle_tcp_echo_write_send(c) ==
    /\ pc[c] = "write_send"
    /\ write_all(c, to_le_bytes(send_ns[c], 8), "write_payload")

\* tcp.rs:87
handle_tcp_echo_write_payload(c) ==
    /\ pc[c] = "write_payload"
    /\ write_all(c, echo_bytes(c), "flush")

\* tcp.rs:88-89: stream.flush().await?, then the loop starts over. Flushing a
\* TcpStream does nothing and cannot fail; flushing a TLS stream writes.
handle_tcp_echo_flush(c) ==
    /\ Running
    /\ pc[c] = "flush"
    /\ IF kind[c] = "tls" /\ peer[c] = "reset"
       THEN Leave(c, "Err") /\ UNCHANGED flushed
       ELSE /\ flushed' = [flushed EXCEPT ![c] = Len(out[c])]
            /\ Leave(c, "read_len")
    /\ tokio_spawn(c)
    /\ UNCHANGED <<main_pc, exit_status, selected, tls_cfg, task_err, bench>>
    /\ UNCHANGED <<hs, rpos, out, network, clock>>

\* ------------------------------------------------------------ i64 (bench.rs)
\* An i64 is held as its four 16-bit limbs, least significant first, in
\* two's complement.
Limb == 65536

\* The i64 of an integer of at most 31 bits; floor division extends the sign.
i64_from(v) ==
    <<v % Limb,
      (v \div Limb) % Limb,
      ((v \div Limb) \div Limb) % Limb,
      (((v \div Limb) \div Limb) \div Limb) % Limb>>

i64_MAX == <<65535, 65535, 65535, 32767>>
i64_MIN == <<0, 0, 0, 32768>>

is_negative(a) == a[4] >= 32768

\* i64::wrapping_add: the sum modulo 2^64.
wrapping_add(a, b) ==
    LET s1 == a[1] + b[1]
        s2 == a[2] + b[2] + s1 \div Limb
        s3 == a[3] + b[3] + s2 \div Limb
        s4 == a[4] + b[4] + s3 \div Limb
    IN  <<s1 % Limb, s2 % Limb, s3 % Limb, s4 % Limb>>

\* The addition of a and b, of sum w modulo 2^64, overflows i64: both
\* operands of one sign, the sum of the other.
add_overflows(a, b, w) ==
    /\ is_negative(a) = is_negative(b)
    /\ is_negative(w) # is_negative(a)

\* i64::wrapping_neg.
wrapping_neg(a) ==
    wrapping_add(<<65535 - a[1], 65535 - a[2], 65535 - a[3], 65535 - a[4]>>,
                 <<1, 0, 0, 0>>)

\* bench.rs:41: `sum / n as i64`, i64 division by n > 0: the quotient of the
\* magnitudes with the sign of the dividend (truncation toward zero), by long
\* division from the top limb; n < 2^15 keeps every step within 31 bits.
i64_div(a, n) ==
    LET neg == is_negative(a)
        mag == IF neg THEN wrapping_neg(a) ELSE a
        q4  == mag[4] \div n
        t3  == (mag[4] % n) * Limb + mag[3]
        q3  == t3 \div n
        t2  == (t3 % n) * Limb + mag[2]
        q2  == t2 \div n
        t1  == (t2 % n) * Limb + mag[1]
        q1  == t1 \div n
        q   == <<q1, q2, q3, q4>>
    IN  IF neg THEN wrapping_neg(q) ELSE q

\* A panic where an i64 is expected: no value.
panic == <<>>

\* bench.rs:37: sorted.iter().sum() of the elements lo..hi onto acc, from the
\* left: each `+` wraps in a build without overflow checks and panics in a
\* build with them. (Split in halves only to keep the evaluation shallow:
\* the additions are made in the order of the slice.)
RECURSIVE iter_sum(_, _, _, _, _)
iter_sum(s, lo, hi, acc, overflow_checks) ==
    IF acc = panic \/ lo > hi THEN acc
    ELSE IF lo = hi
    THEN CHOOSE r \in {IF overflow_checks /\ add_overflows(acc, s[lo], w)
                       THEN panic
                       ELSE w : w \in {wrapping_add(acc, s[lo])}} : TRUE
    ELSE LET mid == (lo + hi) \div 2 IN
         iter_sum(s, mid + 1, hi, iter_sum(s, lo, mid, acc, overflow_checks),
                  overflow_checks)

\* --------------------------------------------------- f64 (bench.rs:43)
\* The significand of the f64 nearest to 0.99 (0x3FEFAE147AE147AE): the
\* value is F64_099 * 2^-53; as 16-bit limbs, least significant first.
F64_099 == <<18350, 31457, 44564, 31>>

\* n * F64_099 exactly, n < 2^14, as five 16-bit limbs.
mul_exact(n) ==
    LET p1 == n * F64_099[1]
        p2 == n * F64_099[2] + p1 \div Limb
        p3 == n * F64_099[3] + p2 \div Limb
        p4 == n * F64_099[4] + p3 \div Limb
    IN  <<p1 % Limb, p2 % Limb, p3 % Limb, p4 % Limb, p4 \div Limb>>

\* Bit i (from 1, the least significant) of the limbs p.
bit(p, i) == (p[(i - 1) \div 16 + 1] \div (2 ^ ((i - 1) % 16))) % 2

\* The variant that multiplies by 1.0.
p99_index_whole(n) == n

\* bench.rs:43: (n as f64 * 0.99) as usize. n as f64 is exact; the product is
\* the exact product rounded to 53 significant bits, ties to even; the cast
\* drops the fraction. With P = n * F64_099 of L bits, the product is
\* P * 2^-53: its integer part is the bits 54..L of P, plus one when the
\* rounding carries into them.
p99_index(n) ==
    LET P  == mul_exact(n)
        Ls == {i \in 1..80 : bit(P, i) = 1}
        L  == IF Ls = {} THEN 0 ELSE CHOOSE i \in Ls : \A j \in Ls : j <= i
        d  == L - 53
        int == IF L < 54 THEN 0
               ELSE LET RECURSIVE part(_)
                        part(i) == IF i > L THEN 0 ELSE bit(P, i) + 2 * part(i + 1)
                    IN  part(54)
        round_up == /\ d > 0
                    /\ bit(P, d) = 1
                    /\ \/ \E i \in 1..(d - 1) : bit(P, i) = 1
                       \/ bit(P, d + 1) = 1
        carries == round_up /\ \A i \in (d + 1)..53 : bit(P, i) = 1
    IN  int + (IF carries THEN 1 ELSE 0)

\* The variant that takes the last element for the median.
p50_index_last(n) == n - 1

\* bench.rs:42: n / 2 on usize.
p50_index(n) == n \div 2

\* sorted[i]: the element at the 0-based index i, a panic outside the slice.
index(s, i) == IF i >= 0 /\ i < Len(s) THEN s[i + 1] ELSE panic

\* ------------------------------------------------ Stats::from_sorted (bench.rs)
\* bench.rs:26-45. The result is the Stats, or Panicked when the call
\* unwinds.
Panicked == [panicked |-> TRUE]

from_sorted(s, overflow_checks) ==
    IF s = <<>>
    THEN [min |-> i64_from(0), max |-> i64_from(0), mean |-> i64_from(0),
          p50 |-> i64_from(0), p99 |-> i64_from(0)]
    ELSE LET n   == Len(s)
             sum == iter_sum(s, 1, n, i64_from(0), overflow_checks)
         IN  IF sum = panic
                \/ index(s, p50_index(n)) = panic
                \/ index(s, p99_index(n)) = panic
             THEN Panicked
             ELSE [min  |-> index(s, 0),
                   max  |-> index(s, n - 1),
                   mean |-> i64_div(sum, n),
                   p50  |-> index(s, p50_index(n)),
                   p99  |-> index(s, p99_index(n))]

\* --------------------------------------------------------- the specification
\* No call of Stats::from_sorted has been made, and no Benchmark call.
NoStats ==
    /\ sorted = <<>>
    /\ stats = <<>>

NoBenchmark ==
    /\ request = <<>>
    /\ response = <<>>

\* No task is inside now_ns.
NoCallers ==
    /\ once_running = FALSE
    /\ call_pc = [c \in Callers |-> "idle"]
    /\ call_now = [c \in Callers |-> 0]
    /\ call_epoch = [c \in Callers |-> <<>>]
    /\ returned = [c \in Callers |-> <<>>]

\* No slice is being indexed.
NoIndexing ==
    /\ slice_len = 1
    /\ slice_idx = <<>>

NoCalls == NoStats /\ NoBenchmark /\ NoCallers /\ NoIndexing

\* The process as main starts, with q things left for the peers to do.
Start(q) ==
    /\ main_pc = "resolve_tls"
    /\ exit_status = "running"
    /\ selected = "none"
    /\ tls_cfg = "unresolved"
    /\ task = [t \in Transports |-> "unspawned"]
    /\ task_err = [t \in Transports |-> "none"]
    /\ nconn = 0
    /\ kind = [c \in Conns |-> "none"]
    /\ pc = [c \in Conns |-> "idle"]
    /\ hs = [c \in Conns |-> "none"]
    /\ peer = [c \in Conns |-> "open"]
    /\ inq = [c \in Conns |-> <<>>]
    /\ rpos = [c \in Conns |-> 0]
    /\ len = [c \in Conns |-> 0]
    /\ recv_ns = [c \in Conns |-> 0]
    /\ send_ns = [c \in Conns |-> 0]
    /\ payload = [c \in Conns |-> <<>>]
    /\ out = [c \in Conns |-> <<>>]
    /\ flushed = [c \in Conns |-> 0]
    /\ instant = 0
    /\ ticks = 0
    /\ EPOCH = <<>>
    /\ quota = q
    /\ NoCalls

Init == Start(MaxPeerEventsFromStart)

Next ==
    \/ main_resolve_tls
    \/ main_spawn
    \/ main_select
    \/ \E t \in Transports : bind(t)
    \/ \E t \in Transports : serve_error(t)
    \/ serve_plaintext_accept
    \/ serve_tls_accept
    \/ \E c \in Conns : acceptor_accept(c)
    \/ \E c \in Conns : handle_tcp_echo_read_len(c)
    \/ \E c \in Conns : handle_tcp_echo_read_payload(c)
    \/ \E c \in Conns : handle_tcp_echo_write_recv(c)
    \/ \E c \in Conns : handle_tcp_echo_write_send(c)
    \/ \E c \in Conns : handle_tcp_echo_write_payload(c)
    \/ \E c \in Conns : handle_tcp_echo_flush(c)
    \/ \E c \in Conns : peer_send_frame(c)
    \/ \E c \in Conns : peer_send_partial(c)
    \/ \E c \in Conns : peer_close(c)
    \/ \E c \in Conns : peer_reset(c)
    \/ Tick

Spec == Init /\ [][Next]_vars

\* The echo service on its own: the process as it is once main waits in its
\* select! and the three transports listen (a state Spec reaches, but for
\* what is left for the peers to do), and from there the connections, their
\* peers and the clock, with no transport failing.
ListeningWith(q) ==
    /\ main_pc = "select"
    /\ exit_status = "running"
    /\ selected = "none"
    /\ tls_cfg = "Ok"
    /\ task = [t \in Transports |-> "listening"]
    /\ task_err = [t \in Transports |-> "none"]
    /\ nconn = 0
    /\ kind = [c \in Conns |-> "none"]
    /\ pc = [c \in Conns |-> "idle"]
    /\ hs = [c \in Conns |-> "none"]
    /\ peer = [c \in Conns |-> "open"]
    /\ inq = [c \in Conns |-> <<>>]
    /\ rpos = [c \in Conns |-> 0]
    /\ len = [c \in Conns |-> 0]
    /\ recv_ns = [c \in Conns |-> 0]
    /\ send_ns = [c \in Conns |-> 0]
    /\ payload = [c \in Conns |-> <<>>]
    /\ out = [c \in Conns |-> <<>>]
    /\ flushed = [c \in Conns |-> 0]
    /\ instant = 0
    /\ ticks = 0
    /\ EPOCH = <<>>
    /\ quota = q

Listening == ListeningWith(MaxPeerEvents)

InitEcho == Listening /\ NoCalls

NextEcho ==
    \/ serve_plaintext_accept
    \/ serve_tls_accept
    \/ \E c \in Conns : acceptor_accept(c)
    \/ \E c \in Conns : handle_tcp_echo_read_len(c)
    \/ \E c \in Conns : handle_tcp_echo_read_payload(c)
    \/ \E c \in Conns : handle_tcp_echo_write_recv(c)
    \/ \E c \in Conns : handle_tcp_echo_write_send(c)
    \/ \E c \in Conns : handle_tcp_echo_write_payload(c)
    \/ \E c \in Conns : handle_tcp_echo_flush(c)
    \/ \E c \in Conns : peer_send_frame(c)
    \/ \E c \in Conns : peer_send_partial(c)
    \/ \E c \in Conns : peer_close(c)
    \/ \E c \in Conns : peer_reset(c)
    \/ Tick

SpecEcho == InitEcho /\ [][NextEcho]_vars

\* The whole process under the scheduling tokio gives: a task whose
\* JoinHandle is ready wakes main, which then runs its select! branch.
InitFair == Start(MaxPeerEventsFair)

FairSpec == InitFair /\ [][Next]_vars /\ WF_vars(main_select)

\* The echo service under the scheduling tokio gives the spawned tasks: a
\* connection's task that can take its next step takes it.
handle_task(c) ==
    \/ acceptor_accept(c)
    \/ handle_tcp_echo_read_len(c)
    \/ handle_tcp_echo_read_payload(c)
    \/ handle_tcp_echo_write_recv(c)
    \/ handle_tcp_echo_write_send(c)
    \/ handle_tcp_echo_write_payload(c)
    \/ handle_tcp_echo_flush(c)

InitFairEcho == ListeningWith(MaxPeerEventsStall) /\ NoCalls

FairSpecEcho ==
    InitFairEcho /\ [][NextEcho]_vars /\ \A c \in Conns : WF_vars(handle_task(c))

\* ------------------------------------------------ the Statistics Engine alone
\* Ord for i64: the order of the values, by the top limb with its sign bit
\* turned round, then the lower limbs.
i64_lt(a, b) ==
    IF a[4] # b[4] THEN (a[4] + 32768) % Limb < (b[4] + 32768) % Limb
    ELSE IF a[3] # b[3] THEN a[3] < b[3]
    ELSE IF a[2] # b[2] THEN a[2] < b[2]
    ELSE a[1] < b[1]

\* The samples the batches are made of.
Samples ==
    {i64_MIN, i64_from(-7), i64_from(-2), i64_from(0), i64_from(3), i64_MAX}

\* The lengths of the long batches: the least with a 99th percentile that is
\* not the maximum lies between them.
LongLens == {100, 101, 200}

is_sorted(s) == \A k \in 1..(Len(s) - 1) : ~i64_lt(s[k + 1], s[k])

\* The batches from_sorted is called with, each sorted ascending as
\* grpc.rs:73 leaves it: all of at most MaxLen samples, and long ones that
\* hold one sample up to their last two places.
Batches ==
    {s \in UNION {[1..n -> Samples] : n \in 0..MaxLen} : is_sorted(s)}
    \cup {s \in {[k \in 1..n |-> IF k <= n - 2 THEN abc[1]
                                 ELSE IF k = n - 1 THEN abc[2] ELSE abc[3]] :
                    n \in LongLens, abc \in Samples \X Samples \X Samples} :
            is_sorted(s)}

\* grpc.rs:75: Stats::from_sorted(&latencies), in a build with or without
\* overflow checks.
Stats_from_sorted ==
    /\ stats = <<>>
    /\ \E overflow_checks \in BOOLEAN :
         stats' = <<from_sorted(sorted, overflow_checks)>>
    /\ UNCHANGED <<sorted, request, response, callers, indexing>>
    /\ UNCHANGED <<supervisor, clock, handler, network>>

InitStats ==
    /\ Listening
    /\ sorted \in Batches
    /\ stats = <<>>
    /\ NoBenchmark
    /\ NoCallers
    /\ NoIndexing

NextStats == Stats_from_sorted

SpecStats == InitStats /\ [][NextStats]_vars

\* ------------------------------------- the indices of from_sorted, alone
\* grpc.rs:49: the longest slice Benchmark passes to Stats::from_sorted.
max_iterations == 10000

\* bench.rs:36, bench.rs:42-43: the two computed indices for a slice of
\* slice_len elements.
Stats_indices ==
    /\ slice_idx = <<>>
    /\ slice_idx' = <<[p50 |-> p50_index(slice_len),
                       p99 |-> p99_index(slice_len)]>>
    /\ UNCHANGED <<slice_len, sorted, stats, request, response, callers>>
    /\ UNCHANGED <<supervisor, clock, handler, network>>

InitIndices ==
    /\ Listening
    /\ NoStats /\ NoBenchmark /\ NoCallers
    /\ slice_len \in 1..max_iterations
    /\ slice_idx = <<>>

NextIndices == Stats_indices

SpecIndices == InitIndices /\ [][NextIndices]_vars

\* ------------------------------------------------- Benchmark alone (grpc.rs)
\* A u32 is held as its two 16-bit limbs, least significant first.
u32_MAX == <<65535, 65535>>

u32_from(v) == <<v % Limb, v \div Limb>>

\* Ord for u32.
u32_le(a, b) == a[2] < b[2] \/ (a[2] = b[2] /\ a[1] <= b[1])

\* Ord::max and Ord::min on u32.
max(a, b) == IF u32_le(a, b) THEN b ELSE a
min(a, b) == IF u32_le(a, b) THEN a ELSE b

\* `as usize` of a u32.
as_usize(a) == a[1] + Limb * a[2]

\* The variant without the lower clamp.
clamp_iterations_upper(iterations) == as_usize(min(iterations, u32_from(10000)))

\* grpc.rs:49: inner.iterations.max(1).min(10_000) as usize
clamp_iterations(iterations) ==
    as_usize(min(max(iterations, u32_from(1)), u32_from(10000)))

\* The requests made, iterations and payload_bytes each a u32: every pair of
\* a small iterations and a payload_bytes, and four with an iterations at or
\* above the upper clamp.
BenchmarkRequests ==
    [iterations : {u32_from(v) : v \in 0..7},
     payload_bytes : {u32_from(0), u32_from(1024), u32_MAX}]
    \cup {[iterations |-> u32_from(10000), payload_bytes |-> u32_from(0)],
          [iterations |-> u32_from(10001), payload_bytes |-> u32_from(1)],
          [iterations |-> u32_from(50000), payload_bytes |-> u32_from(1024)],
          [iterations |-> u32_MAX, payload_bytes |-> u32_MAX]}

\* How the clock is seen to advance while one call runs, in ns: between two
\* reads outside an iteration's window (gap), between the two reads of an
\* iteration (touch), and what the middle iteration takes on top (slow).
Schedules == [gap : {0, 1}, touch : {0, 2}, slow : {0, 3}]

\* The iteration that takes longer, of n.
slow_at(n) == (n + 1) \div 2

\* bench::now_ns called when the clock has advanced by off since this step
\* began: the epoch is the one the step's first call finds or sets.
now_ns_after(off) == now_ns + off

\* grpc.rs:63, grpc.rs:68: how far the clock has advanced at the reads of t0
\* and t1 in iteration k of n.
t0_at(sch, n, k) ==
    sch.gap + (k - 1) * (sch.touch + sch.gap)
        + (IF k > slow_at(n) THEN sch.slow ELSE 0)

t1_at(sch, n, k) ==
    t0_at(sch, n, k) + sch.touch + (IF k = slow_at(n) THEN sch.slow ELSE 0)

\* grpc.rs:72: and at the read of overhead_end, after the loop.
end_at(sch, n) == t1_at(sch, n, n) + sch.gap

\* For each value in s, how many elements of s are not above it.
rank_in(s) ==
    [v \in {s[k] : k \in 1..Len(s)} |->
        Cardinality({k \in 1..Len(s) : ~i64_lt(v, s[k])})]

\* The ascending arrangement of n elements with the ranks rank: its element
\* k is the least value that is not below k of the elements.
arranged(n, rank) ==
    [k \in 1..n |->
        CHOOSE v \in DOMAIN rank :
            /\ rank[v] >= k
            /\ \A w \in DOMAIN rank : rank[w] >= k => ~i64_lt(w, v)]

\* grpc.rs:73: latencies.sort_unstable(). (The sets of one element make the
\* slice and its ranks be computed once.)
sort_unstable(s) ==
    CHOOSE r \in {CHOOSE a \in {arranged(Len(t), rank) : rank \in {rank_in(t)}} : TRUE :
                     t \in {s}} : TRUE

\* The variant that opens the overhead window after the loop.
overhead_window_late(sch, n) ==
    i64_from(now_ns_after(end_at(sch, n)) - now_ns_after(t1_at(sch, n, n)))

\* grpc.rs:60, grpc.rs:72, grpc.rs:84: overhead_end - overhead_start, the
\* first read at the start of the step.
overhead_window(sch, n) ==
    i64_from(now_ns_after(end_at(sch, n)) - now_ns_after(0))

\* grpc.rs:44-92: the Benchmark handler; it has no suspension point, so the
\* whole of it is one step, in which the clock advances by schedule sch.
benchmark ==
    /\ Running
    /\ request # <<>>
    /\ response = <<>>
    /\ \E sch \in Schedules :
         \E iterations \in {clamp_iterations(request[1].iterations)} :
         \E latencies \in {[k \in 1..iterations |->
                               i64_from(now_ns_after(t1_at(sch, iterations, k))
                                        - now_ns_after(t0_at(sch, iterations, k)))]} :
         \E sorted_lat \in {sort_unstable(latencies)} :
         \E st \in {from_sorted(sorted_lat, oc) : oc \in BOOLEAN} :
             /\ response' =
                   IF st = Panicked THEN <<Panicked>>
                   ELSE <<[status |-> "Ok",
                           latencies_ns |-> sorted_lat,
                           min_ns |-> st.min,
                           max_ns |-> st.max,
                           mean_ns |-> st.mean,
                           p50_ns |-> st.p50,
                           p99_ns |-> st.p99,
                           processing_overhead_ns |-> overhead_window(sch, iterations),
                           tls_active |-> TRUE,
                           tls_version |-> "TLS 1.3"]>>
             /\ EPOCH' = get_or_init
             /\ instant' = instant + end_at(sch, iterations)
    /\ UNCHANGED <<ticks, request, sorted, stats, callers, indexing>>
    /\ UNCHANGED <<supervisor, handler, network>>

InitBenchmark ==
    /\ Listening
    /\ NoStats
    /\ request \in {<<r>> : r \in BenchmarkRequests}
    /\ response = <<>>
    /\ NoCallers
    /\ NoIndexing

NextBenchmark == benchmark

SpecBenchmark == InitBenchmark /\ [][NextBenchmark]_vars

\* ------------------------------------- now_ns called side by side (bench.rs)
\* The handler tasks run on the threads of the runtime (main.rs:45), so several
\* of them can be inside bench::now_ns at once. Here a call is taken in the
\* steps the other callers can observe.

\* The variant without the lock: whoever finds EPOCH unset runs the
\* initializer.
call_once_racy(epoch, running) ==
    IF epoch # <<>> THEN "elapsed" ELSE "init"

\* bench.rs:12: OnceLock::get_or_init as a caller enters it: it goes on with
\* the stored value, runs the initializer, or waits for the running one.
call_once(epoch, running) ==
    IF epoch # <<>> THEN "elapsed"
    ELSE IF running THEN "wait"
    ELSE "init"

\* bench.rs:13: Instant::elapsed, now minus the earlier instant, zero when
\* the clock reads earlier than it.
elapsed(earlier) == IF instant >= earlier THEN instant - earlier ELSE 0

\* bench.rs:12: caller c enters get_or_init; a waiting caller does not move.
get_or_init_enter(c) ==
    /\ exit_status = "running"
    /\ call_pc[c] = "idle"
    /\ Len(returned[c]) < MaxCalls
    /\ \E way \in {call_once(EPOCH, once_running)} :
         /\ way # "wait"
         /\ call_pc' = [call_pc EXCEPT ![c] = way]
         /\ once_running' = (once_running \/ way = "init")
         /\ call_epoch' = [call_epoch EXCEPT
                             ![c] = IF way = "elapsed" THEN EPOCH ELSE <<>>]
    /\ UNCHANGED <<call_now, returned, sorted, stats, request, response, indexing>>
    /\ UNCHANGED <<supervisor, clock, handler, network>>

\* bench.rs:12: the initializer, Instant::now.
Instant_now(c) ==
    /\ call_pc[c] = "init"
    /\ call_now' = [call_now EXCEPT ![c] = instant]
    /\ call_pc' = [call_pc EXCEPT ![c] = "store"]
    /\ UNCHANGED <<once_running, call_epoch, returned>>
    /\ UNCHANGED <<sorted, stats, request, response, indexing>>
    /\ UNCHANGED <<supervisor, clock, handler, network>>

\* bench.rs:12: get_or_init stores what the initializer returned and hands
\* out the reference to it.
get_or_init_store(c) ==
    /\ call_pc[c] = "store"
    /\ EPOCH' = <<call_now[c]>>
    /\ once_running' = FALSE
    /\ call_epoch' = [call_epoch EXCEPT ![c] = <<call_now[c]>>]
    /\ call_pc' = [call_pc EXCEPT ![c] = "elapsed"]
    /\ UNCHANGED <<instant, ticks, call_now, returned>>
    /\ UNCHANGED <<sorted, stats, request, response, indexing>>
    /\ UNCHANGED <<supervisor, handler, network>>

\* bench.rs:13: epoch.elapsed().as_nanos() as i64, returned to the caller.
now_ns_return(c) ==
    /\ call_pc[c] = "elapsed"
    /\ returned' = [returned EXCEPT
                      ![c] = Append(@, elapsed(call_epoch[c][1]))]
    /\ call_pc' = [call_pc EXCEPT ![c] = "idle"]
    /\ UNCHANGED <<once_running, call_now, call_epoch>>
    /\ UNCHANGED <<sorted, stats, request, response, indexing>>
    /\ UNCHANGED <<supervisor, clock, handler, network>>

InitClock == Listening /\ NoCalls

NextClock ==
    \/ Tick
    \/ \E c \in Callers : get_or_init_enter(c)
    \/ \E c \in Callers : Instant_now(c)
    \/ \E c \in Callers : get_or_init_store(c)
    \/ \E c \in Callers : now_ns_return(c)

SpecClock == InitClock /\ [][NextClock]_vars

\* ------------------------------------------------- the wire format, restated
\* The reference the claims are stated against: it is written from the wire
\* format (spec section 6) and uses none of the definitions above.

\* The u32 LE value of the four bytes b.
WireLen(b) == b[1] + 256 * b[2] + 65536 * b[3] + 16777216 * b[4]

RECURSIVE Shr8(_, _)
Shr8(v, k) == IF k = 0 THEN v ELSE Shr8(v \div 256, k - 1)

\* The eight bytes of v as i64 LE.
WireI64(v) == [i \in 1..8 |-> Shr8(v, i - 1) % 256]

\* The value of eight bytes as i64 LE, for values of less than 2^24 in size;
\* 2^24 stands for any other.
WireI64Value(b) ==
    IF \A i \in 4..8 : b[i] = 0
    THEN b[1] + 256 * b[2] + 65536 * b[3]
    ELSE IF \A i \in 4..8 : b[i] = 255
    THEN b[1] + 256 * b[2] + 65536 * b[3] - 16777216
    ELSE 16777216

\* The payloads of the request frames a byte stream holds whole, in order, up
\* to the first disconnect frame or unfinished frame.
RECURSIVE Requests(_)
Requests(b) ==
    IF Len(b) < 4 THEN <<>>
    ELSE LET n == WireLen(SubSeq(b, 1, 4)) IN
         IF n = 0 \/ Len(b) < 4 + n THEN <<>>
         ELSE <<SubSeq(b, 5, 4 + n)>> \o Requests(SubSeq(b, 5 + n, Len(b)))

\* The payload parts of the responses that o holds whole, when the responses
\* answer the requests reqs in order.
RECURSIVE Responses(_, _)
Responses(o, reqs) ==
    IF reqs = <<>> \/ Len(o) < 16 + Len(Head(reqs)) THEN <<>>
    ELSE <<SubSeq(o, 17, 16 + Len(Head(reqs)))>>
         \o Responses(SubSeq(o, 17 + Len(Head(reqs)), Len(o)), Tail(reqs))

\* The bytes the first k requests of reqs take on the wire, and their
\* responses.
RECURSIVE RequestBytes(_, _)
RequestBytes(reqs, k) ==
    IF k = 0 THEN 0 ELSE 4 + Len(reqs[k]) + RequestBytes(reqs, k - 1)

RECURSIVE ResponseBytes(_, _)
ResponseBytes(reqs, k) ==
    IF k = 0 THEN 0 ELSE 16 + Len(reqs[k]) + ResponseBytes(reqs, k - 1)

\* A step of the task of connection c.
TaskStep(c) == pc'[c] # pc[c]

\* The bytes of the stream of c that have arrived and are not read.
Unread(c) == Len(inq[c]) - rpos[c]

\* ------------------------------------------------------------------ claims

\* C1: when the handler has read a frame with len > 0 whole and comes back to
\* reading the next length, what it wrote for the frame is exactly 16 + len
\* bytes: recv_ns as i64 LE, send_ns as i64 LE, then the len payload bytes as
\* they were received; the flush covers them all.
C1_Response ==
    [][\A c \in Conns :
        (pc[c] = "flush" /\ pc'[c] = "read_len") =>
            LET resp == SubSeq(out[c], flushed[c] + 1, Len(out[c])) IN
            /\ len[c] > 0
            /\ Len(resp) = 16 + len[c]
            /\ SubSeq(resp, 1, 8) = WireI64(recv_ns[c])
            /\ SubSeq(resp, 9, 16) = WireI64(send_ns[c])
            /\ SubSeq(resp, 17, 16 + len[c])
                  = SubSeq(inq[c], rpos[c] - len[c] + 1, rpos[c])
            /\ WireLen(SubSeq(inq[c], rpos[c] - len[c] - 3, rpos[c] - len[c])) = len[c]
            /\ out'[c] = out[c]
            /\ flushed'[c] = Len(out[c])
            /\ rpos'[c] = rpos[c]
      ]_vars

\* C1's case: a connection has answered a two-byte frame with timestamps
\* that need two bytes, and waits for the next length.
C1_Witness ==
    \E c \in Conns :
        /\ pc[c] = "read_len"
        /\ inq[c] = PeerFrame(<<PayloadBytes(c)[1], PayloadBytes(c)[2]>>)
        /\ Len(out[c]) = 18
        /\ flushed[c] = 18
        /\ out[c][9] = 1 /\ out[c][10] = 1

\* C2: on every connection the k-th response echoes the k-th request of that
\* connection; nothing of request k+1 is read before response k is written
\* and flushed; no payload byte of another connection is in a response.
C2_Order ==
    \A c \in Conns :
        LET reqs == Requests(inq[c])
            resp == Responses(out[c], reqs)
            done == Len(Responses(SubSeq(out[c], 1, flushed[c]), reqs))
        IN  /\ \A k \in 1..Len(resp) : resp[k] = reqs[k]
            /\ Len(out[c]) <= ResponseBytes(reqs, Len(reqs))
            /\ flushed[c] <= Len(out[c])
            /\ done < Len(reqs) => rpos[c] <= RequestBytes(reqs, done + 1)
            /\ \A k \in 1..Len(resp) : \A i \in 1..Len(resp[k]) :
                   \A d \in Conns \ {c} :
                       resp[k][i] # PayloadBytes(d)[1] /\ resp[k][i] # PayloadBytes(d)[2]

\* C2's case: two connections are open at once; one has answered two frames
\* in turn, the other one frame.
C2_Witness ==
    \E c, d \in Conns :
        /\ c # d
        /\ Len(Requests(inq[c])) = 2
        /\ Len(out[c]) = ResponseBytes(Requests(inq[c]), 2)
        /\ Len(Requests(inq[d])) = 1
        /\ Len(out[d]) = ResponseBytes(Requests(inq[d]), 1)

\* C3: a length of 0 ends the handler with Ok; nothing is written for that
\* frame and nothing more is read, then or later.
C3_Disconnect ==
    [][\A c \in Conns :
        /\ ( /\ pc[c] = "read_len"
             /\ TaskStep(c)
             /\ peer[c] # "reset"
             /\ Unread(c) >= 4
             /\ WireLen(SubSeq(inq[c], rpos[c] + 1, rpos[c] + 4)) = 0 )
           => ( /\ pc'[c] = "Ok"
                /\ out'[c] = out[c]
                /\ rpos'[c] = rpos[c] + 4 )
        /\ pc[c] = "Ok"
           => (pc'[c] = "Ok" /\ out'[c] = out[c] /\ rpos'[c] = rpos[c])
      ]_vars

\* C3's case: after one frame served, a length of 0 has ended the handler
\* with a further frame of the peer left unread.
C3_Witness ==
    \E c \in Conns :
        /\ pc[c] = "Ok"
        /\ inq[c] = PeerFrame(<<PayloadBytes(c)[1]>>) \o PeerFrame(<<>>)
                       \o PeerFrame(<<PayloadBytes(c)[1]>>)
        /\ rpos[c] = 9
        /\ Len(out[c]) = 17

\* C4: when the peer closes with no byte of the next length sent, the
\* handler ends with Ok and writes nothing more.
C4_CleanEof ==
    [][\A c \in Conns :
        ( /\ pc[c] = "read_len"
          /\ TaskStep(c)
          /\ peer[c] = "closed"
          /\ Unread(c) = 0 )
        => (pc'[c] = "Ok" /\ out'[c] = out[c])
      ]_vars

\* C4's case: the peer closed after one frame, which was answered, and the
\* handler has ended with Ok.
C4_Witness ==
    \E c \in Conns :
        /\ pc[c] = "Ok"
        /\ peer[c] = "closed"
        /\ inq[c] = PeerFrame(<<PayloadBytes(c)[1]>>)
        /\ rpos[c] = 5
        /\ Len(out[c]) = 17

\* C5: when the read of the length fails otherwise than by a close at a
\* frame boundary (the connection breaks, or the peer closes after 1, 2 or 3
\* bytes of the length), the handler ends with Err.
C5_PartialLength ==
    [][\A c \in Conns :
        ( /\ pc[c] = "read_len"
          /\ TaskStep(c)
          /\ \/ peer[c] = "reset"
             \/ peer[c] = "closed" /\ Unread(c) \in 1..3 )
        => pc'[c] = "Err"
      ]_vars

\* C6: when the payload of a frame with len > 0 does not arrive whole, the
\* handler ends with Err and no byte is written for that frame, then or
\* later.
C6_ShortPayload ==
    [][\A c \in Conns :
        /\ ( /\ pc[c] = "read_payload"
             /\ TaskStep(c)
             /\ peer[c] = "reset" \/ (peer[c] = "closed" /\ Unread(c) < len[c]) )
           => ( /\ len[c] > 0
                /\ pc'[c] = "Err"
                /\ Len(out[c]) = flushed[c]
                /\ out'[c] = out[c] )
        /\ pc[c] = "Err" => (pc'[c] = "Err" /\ out'[c] = out[c])
      ]_vars

\* C6's case: the peer announced two bytes, sent one and closed; the handler
\* has ended with Err and nothing written.
C6_Witness ==
    \E c \in Conns :
        /\ pc[c] = "Err"
        /\ peer[c] = "closed"
        /\ inq[c] = <<2, 0, 0, 0, PayloadBytes(c)[1]>>
        /\ out[c] = <<>>

\* C7: in every response recv_ns <= send_ns. recv_ns is taken in the step
\* that ends the read of the 4 length bytes, with no payload byte read;
\* send_ns in the step that ends the read of the payload, with no response
\* byte written; both are the reading of one clock that never goes back, and
\* neither changes while the response is written.
C7_Timestamps ==
    /\ [](\A c \in Conns :
            /\ pc[c] \in {"write_recv", "write_send", "write_payload", "flush"}
                  => recv_ns[c] <= send_ns[c]
            /\ LET reqs == Requests(inq[c]) IN
               \A k \in 1..Len(Responses(out[c], reqs)) :
                  LET at == ResponseBytes(reqs, k - 1)
                      r  == WireI64Value(SubSeq(out[c], at + 1, at + 8))
                      t  == WireI64Value(SubSeq(out[c], at + 9, at + 16))
                  IN  r <= t /\ t < 16777216)
    /\ [][/\ instant' >= instant
          /\ EPOCH # <<>> => EPOCH' = EPOCH
          /\ \A c \in Conns :
               /\ (pc[c] = "read_len" /\ pc'[c] = "read_payload")
                     => /\ rpos'[c] = rpos[c] + 4
                        /\ recv_ns'[c] = instant - EPOCH'[1]
               /\ (pc[c] = "read_payload" /\ pc'[c] = "write_recv")
                     => /\ rpos'[c] = rpos[c] + len[c]
                        /\ Len(out[c]) = flushed[c] /\ out'[c] = out[c]
                        /\ send_ns'[c] = instant - EPOCH'[1]
                        /\ recv_ns'[c] = recv_ns[c]
               /\ pc[c] \in {"write_recv", "write_send", "write_payload"}
                     /\ pc'[c] \in {"write_send", "write_payload", "flush"}
                     => recv_ns'[c] = recv_ns[c] /\ send_ns'[c] = send_ns[c]
         ]_vars

\* C7's case: a response whose send_ns is later than its recv_ns.
C7_Witness ==
    \E c \in Conns :
        /\ Len(Responses(out[c], Requests(inq[c]))) >= 1
        /\ WireI64Value(SubSeq(out[c], 1, 8)) < WireI64Value(SubSeq(out[c], 9, 16))

\* A connection's own part of the state.
ConnState(c) ==
    <<kind[c], pc[c], hs[c], peer[c], inq[c], rpos[c], len[c], recv_ns[c],
      send_ns[c], payload[c], out[c], flushed[c]>>

\* C8: the step in which a connection's task ends with an echo I/O error or
\* a failed TLS handshake changes no transport's task, does not end the
\* process and touches no other connection; and no step at all both moves a
\* connection's task and changes a transport's task.
C8_Isolation ==
    [][/\ \A c \in Conns :
            (~Terminated(c) /\ pc'[c] \in {"Err", "hs_failed"})
            => /\ task' = task
               /\ exit_status' = exit_status
               /\ main_pc' = main_pc
               /\ \A d \in Conns \ {c} : ConnState(d)' = ConnState(d)
       /\ (\E t \in {"tcp", "tls"} : task'[t] # task[t]) => pc' = pc
      ]_vars

\* C8's case: one connection has ended with an error, another has been
\* answered and waits for its next frame; both listeners still accept and
\* the process runs.
C8_Witness ==
    /\ exit_status = "running"
    /\ task["tcp"] = "listening"
    /\ task["tls"] = "listening"
    /\ \E c, d \in Conns :
         /\ pc[c] = "Err"
         /\ pc[d] = "read_len"
         /\ Len(Responses(out[d], Requests(inq[d]))) = 1
         /\ flushed[d] = Len(out[d])

\* C9: on a TLS connection the echo handler runs only after the handshake
\* has succeeded; after a failed handshake the task has ended without the
\* handler, and nothing was read from or written to the stream.
C9_Handshake ==
    \A c \in Conns :
        /\ (kind[c] = "tls" /\ pc[c] \notin {"idle", "handshake", "hs_failed"})
              => hs[c] = "Ok"
        /\ (kind[c] = "tls" /\ hs[c] # "Ok") => (out[c] = <<>> /\ rpos[c] = 0)
        /\ hs[c] = "Err" => pc[c] = "hs_failed"
        /\ pc[c] = "hs_failed" => hs[c] = "Err"

\* C9's case: one TLS connection was dropped at the handshake, another
\* passed it and has been answered.
C9_Witness ==
    \E c, d \in Conns :
        /\ kind[c] = "tls" /\ hs[c] = "Err" /\ pc[c] = "hs_failed"
        /\ kind[d] = "tls" /\ hs[d] = "Ok"
        /\ Len(Responses(out[d], Requests(inq[d]))) = 1

\* C10: main starts the three transports in one step; once one of them has
\* ended, whichever, the process exits; an ended transport is never started
\* again; the process exits with Ok only through the select! branch of an
\* ended transport, and nothing runs after the exit.
C10_FirstExit ==
    /\ [][/\ (main_pc = "spawn" /\ main_pc' # "spawn")
               => \A t \in Transports : task[t] = "unspawned" /\ task'[t] = "started"
          /\ \A t \in Transports : task[t] = "Err" => task'[t] = "Err"
          /\ (exit_status = "running" /\ exit_status' = "Ok")
               => selected' \in Transports /\ task[selected'] = "Err"
          /\ exit_status = "running"
         ]_vars
    /\ (\E t \in Transports : task[t] = "Err") ~> (exit_status = "Ok")

\* C10's case: the TLS listener ended while the other two transports were
\* listening, and the process has exited through its branch.
C10_Witness ==
    /\ exit_status = "Ok"
    /\ selected = "tls"
    /\ task = [t \in Transports |-> IF t = "tls" THEN "Err" ELSE "listening"]
    /\ \E c \in Conns : pc[c] = "read_payload"

\* C11: when main has returned after a fatal error (the TLS material could
\* not be resolved, or a transport's task ended with an error: its bind, its
\* accept loop or the RPC server), it has returned Err, the failure status.
C11_FatalExit ==
    (main_pc = "done" /\ (tls_cfg = "Err" \/ \E t \in Transports : task[t] = "Err"))
        => exit_status = "Err"

\* C12: in a run in which the bind of some transport has failed, no echo
\* listener has accepted a connection: neither before the failure nor after.
C12_BindAbort ==
    (\E t \in Transports : task_err[t] = "bind") => nconn = 0

\* C13: resolve_tls_config fails when both paths are given and a file cannot
\* be read or the key PEM holds no private key; and once it has failed, main
\* has returned Err with no transport spawned, none bound and no connection
\* accepted.
C13_TlsAbort ==
    /\ \A i \in TlsInputs :
          (i.cert_path /\ i.key_path
             /\ (~i.cert_readable \/ ~i.key_readable \/ i.nkeys = 0))
          => resolve_tls_config(i) = "Err"
    /\ tls_cfg = "Err"
          => /\ main_pc = "done"
             /\ exit_status = "Err"
             /\ \A t \in Transports : task[t] = "unspawned"
             /\ nconn = 0

\* C13's case: the resolution has failed and main has returned.
C13_Witness ==
    /\ tls_cfg = "Err"
    /\ main_pc = "done"

\* ------------------------------------------------------- i64, restated
\* The order of two i64 in two's complement: a negative one is below a
\* non-negative one, and two of one sign compare as unsigned numbers.
RECURSIVE UnsignedLe(_, _, _)
UnsignedLe(a, b, k) ==
    IF k = 0 THEN TRUE
    ELSE IF a[k] # b[k] THEN a[k] < b[k]
    ELSE UnsignedLe(a, b, k - 1)

Le64(a, b) ==
    IF (a[4] >= 32768) # (b[4] >= 32768) THEN a[4] >= 32768
    ELSE UnsignedLe(a, b, 4)

\* C14: whenever from_sorted has returned Stats for a non-empty ascending
\* batch, min <= p50 <= p99 <= max.
C14_Ordered ==
    (sorted # <<>> /\ stats # <<>> /\ stats # <<Panicked>>)
        => /\ Le64(stats[1].min, stats[1].p50)
           /\ Le64(stats[1].p50, stats[1].p99)
           /\ Le64(stats[1].p99, stats[1].max)

\* C14's case: Stats of a batch of 101 samples in which the four fields
\* are not all one value: the 99th percentile lies below the maximum.
C14_Witness ==
    /\ Len(sorted) = 101
    /\ stats # <<>> /\ stats # <<Panicked>>
    /\ stats[1].p50 # stats[1].p99
    /\ stats[1].p99 # stats[1].max

\* Whole numbers of 96 bits, as six 16-bit limbs, least significant first,
\* in two's complement: wide enough for the exact sum of any batch here.
Wide(a) == a \o (IF a[4] >= 32768 THEN <<65535, 65535>> ELSE <<0, 0>>)

RECURSIVE WideAddFrom(_, _, _, _)
WideAddFrom(x, y, k, carry) ==
    IF k > 6 THEN <<>>
    ELSE <<(x[k] + y[k] + carry) % 65536>>
         \o WideAddFrom(x, y, k + 1, (x[k] + y[k] + carry) \div 65536)

WideAdd(x, y) == WideAddFrom(x, y, 1, 0)

WideNeg(x) == WideAdd([k \in 1..6 |-> 65535 - x[k]], <<1, 0, 0, 0, 0, 0>>)

\* The exact sum of the elements lo..hi of s.
RECURSIVE WideSum(_, _, _)
WideSum(s, lo, hi) ==
    IF lo > hi THEN <<0, 0, 0, 0, 0, 0>>
    ELSE IF lo = hi THEN Wide(s[lo])
    ELSE WideAdd(WideSum(s, lo, (lo + hi) \div 2),
                 WideSum(s, (lo + hi) \div 2 + 1, hi))

\* The quotient of the non-negative x by n, limb k downward, rem carried in.
RECURSIVE WideQuotFrom(_, _, _, _)
WideQuotFrom(x, n, k, rem) ==
    IF k = 0 THEN <<>>
    ELSE WideQuotFrom(x, n, k - 1, (rem * 65536 + x[k]) % n)
         \o <<(rem * 65536 + x[k]) \div n>>

\* x divided by n > 0, truncated toward zero.
WideDiv(x, n) ==
    IF x[6] >= 32768
    THEN WideNeg(WideQuotFrom(WideNeg(x), n, 6, 0))
    ELSE WideQuotFrom(x, n, 6, 0)

\* The reference definition of the statistics of an ascending batch.
ReferenceStats(s) ==
    IF s = <<>>
    THEN [min |-> <<0, 0, 0, 0>>, max |-> <<0, 0, 0, 0>>,
          mean |-> <<0, 0, 0, 0, 0, 0>>,
          p50 |-> <<0, 0, 0, 0>>, p99 |-> <<0, 0, 0, 0>>]
    ELSE [min  |-> s[1],
          max  |-> s[Len(s)],
          mean |-> WideDiv(WideSum(s, 1, Len(s)), Len(s)),
          p50  |-> s[Len(s) \div 2 + 1],
          p99  |-> s[(99 * Len(s)) \div 100 + 1]]

\* C15: what from_sorted returns for an ascending batch is the reference
\* statistics of the batch (the mean being the exact sum divided by n,
\* truncated toward zero), and the call leaves the batch as it was.
C15_Reference ==
    /\ [](stats # <<>>
            => /\ stats[1] # Panicked
               /\ stats[1].min = ReferenceStats(sorted).min
               /\ stats[1].max = ReferenceStats(sorted).max
               /\ Wide(stats[1].mean) = ReferenceStats(sorted).mean
               /\ stats[1].p50 = ReferenceStats(sorted).p50
               /\ stats[1].p99 = ReferenceStats(sorted).p99)
    /\ [][sorted' = sorted]_vars

\* The number of samples the contract gives for a u32 iterations:
\* min(max(iterations, 1), 10000).
SampleCount(it) ==
    IF it[2] = 0 /\ it[1] = 0 THEN 1
    ELSE IF it[2] > 0 \/ it[1] > 10000 THEN 10000
    ELSE it[1]

\* C16: a Benchmark call returns Ok, never an error or a panic, with exactly
\* min(max(iterations, 1), 10000) samples, whatever payload_bytes is, and
\* no sample is negative.
C16_Samples ==
    response # <<>>
        => /\ response[1] # Panicked
           /\ response[1].status = "Ok"
           /\ Len(response[1].latencies_ns) = SampleCount(request[1].iterations)
           /\ \A k \in 1..Len(response[1].latencies_ns) :
                  response[1].latencies_ns[k][4] < 32768

\* C16's case: iterations = 50000 with payload_bytes = 1024 has given 10000
\* samples, some of them above zero.
C16_Witness ==
    /\ response # <<>>
    /\ request[1].iterations = <<50000, 0>>
    /\ request[1].payload_bytes = <<1024, 0>>
    /\ Len(response[1].latencies_ns) = 10000
    /\ response[1].latencies_ns[10000] # <<0, 0, 0, 0>>

\* x <= y for two 96-bit values.
WideLe(x, y) == WideAdd(y, WideNeg(x))[6] < 32768

\* C20: in every Benchmark response processing_overhead_ns is at least the
\* exact sum of the returned latency samples, hence at least max_ns and at
\* least zero.
C20_Overhead ==
    (response # <<>> /\ response[1] # Panicked)
        => \E total \in {WideSum(response[1].latencies_ns, 1,
                                 Len(response[1].latencies_ns))} :
              /\ WideLe(total, Wide(response[1].processing_overhead_ns))
              /\ Le64(response[1].max_ns, response[1].processing_overhead_ns)
              /\ Le64(i64_from(0), response[1].processing_overhead_ns)

\* C20's case: a response with several samples above zero, whose sum is above
\* max_ns, and an overhead window longer than that sum.
C20_Witness ==
    /\ response # <<>>
    /\ response[1] # Panicked
    /\ Len(response[1].latencies_ns) = 3
    /\ response[1].latencies_ns[1] # i64_from(0)
    /\ ~ WideLe(Wide(response[1].processing_overhead_ns),
                WideSum(response[1].latencies_ns, 1, 3))

\* C17: EPOCH is set once and never changes; every caller of now_ns measures
\* against that one value, under every interleaving of the callers and the
\* clock; and what now_ns returns to one caller never decreases and is
\* never negative.
C17_OneEpoch ==
    /\ [](\A c \in Callers :
            /\ call_epoch[c] # <<>> => call_epoch[c] = EPOCH
            /\ \A k \in 1..Len(returned[c]) :
                  /\ returned[c][k] >= 0
                  /\ k > 1 => returned[c][k - 1] <= returned[c][k])
    /\ [][EPOCH # <<>> => EPOCH' = EPOCH]_vars

\* C17's case: two callers have measured against the epoch the first of them
\* stored, the first one before and after the clock advanced, the second
\* one in its first call after it.
C17_Witness ==
    /\ EPOCH = <<0>>
    /\ returned[1] = <<0, 257>>
    /\ returned[2] = <<257>>
    /\ call_epoch[1] = call_epoch[2]

\* C18: for every slice length n in 1..10000, the p50 index n / 2 and the p99
\* index (n as f64 * 0.99) as usize that from_sorted computes are both in
\* 0..n-1, and they are floor(n/2) and floor(99n/100).
C18_InRange ==
    slice_idx # <<>>
        => /\ slice_idx[1].p50 \in 0..(slice_len - 1)
           /\ slice_idx[1].p99 \in 0..(slice_len - 1)
           /\ 2 * slice_idx[1].p50 <= slice_len
           /\ slice_len < 2 * slice_idx[1].p50 + 2
           /\ 100 * slice_idx[1].p99 <= 99 * slice_len
           /\ 99 * slice_len < 100 * slice_idx[1].p99 + 100

\* C18's case: the indices of the longest slice, 10000 elements.
C18_Witness ==
    /\ slice_len = 10000
    /\ slice_idx = <<[p50 |-> 5000, p99 |-> 9900]>>

\* The handler of c waits in a read for bytes its peer has not sent, the
\* peer having neither closed nor broken the connection.
Stalled(c) ==
    /\ peer[c] \in {"open", "stalled"}
    /\ \/ pc[c] = "read_len" /\ Unread(c) < 4
       \/ pc[c] = "read_payload" /\ Unread(c) < len[c]

\* The requests of c that are answered: their responses written and flushed.
Answered(c) ==
    Len(Responses(SubSeq(out[c], 1, flushed[c]), Requests(inq[c])))

\* C19: while the peer of a connection sends nothing more and does not close,
\* that connection's handler stays in its read whatever else happens, the
\* clock advancing included; the listeners can still accept; and on every
\* connection, every frame sent whole is eventually answered unless that
\* connection breaks, whatever the other connections' peers do.
C19_Stall ==
    /\ [][\A c \in Conns :
            (Stalled(c) /\ inq'[c] = inq[c] /\ peer'[c] = peer[c])
                => /\ pc'[c] = pc[c]
                   /\ rpos'[c] = rpos[c]
                   /\ out'[c] = out[c]]_vars
    /\ []((nconn < MaxConns /\ \E c \in Conns : Stalled(c))
            => ENABLED serve_plaintext_accept /\ ENABLED serve_tls_accept)
    /\ \A c \in Conns : \A k \in 1..MaxPeerEventsStall :
          (Len(Requests(inq[c])) >= k /\ peer[c] # "reset")
              ~> (Answered(c) >= k \/ peer[c] = "reset")

\* C19's case: the first connection's peer has sent one byte of a length and
\* nothing more, its handler waits in the read and the clock has advanced;
\* the second connection, accepted after it, has had a frame answered.
C19_Witness ==
    /\ nconn = 2
    /\ inq[1] = <<1>>
    /\ peer[1] = "stalled"
    /\ Stalled(1)
    /\ ticks > 0
    /\ out[1] = <<>>
    /\ Requests(inq[2]) # <<>>
    /\ Answered(2) = Len(Requests(inq[2]))

====
